---- MODULE Spec2Model ----
(***************************************************************************)
(* A model of kaamiki/miroslava: the singleton metaclass, the record       *)
(* formatters, the stream sinks, the rotating file sink and create_logger. *)
(* Strings are sequences of one-character strings; an escape sequence      *)
(* (a TTYPalette colour code) is one element of such a sequence.           *)
(***************************************************************************)
EXTENDS Integers, Sequences, FiniteSets, TLC

\* ------------------------------------------------------------------ bounds
NumThreads == 2
MaxCalls == 2
MaxFails == 1

Threads == 1 .. NumThreads
\* Two singleton types, as miroslava.logger.Formatter and
\* miroslava.utils.logger.StreamHandler (both metaclass=Singleton).
Types == {"Formatter", "StreamHandler"}
NoObj == 0
NoThread == 0
Raised == -1

VARIABLES
    \* SingletonMeta / Singleton
    instances,   \* SingletonMeta.instances: type -> object id (NoObj = absent)
    lock,        \* SingletonMeta.lock: the thread holding it, or NoThread
    spc,         \* thread -> position inside __call__
    scls,        \* thread -> the type whose __call__ it runs
    sret,        \* thread -> what its last __call__ gave: object id or Raised
    calls,       \* thread -> number of __call__ it has started
    nextObj,     \* object ids handed out by constructors so far
    ctorRuns,    \* type -> constructor invocations started (history)
    ctorFails,   \* type -> constructor invocations that raised (history)
    returned     \* type -> set of object ids __call__ has returned (history)

singVars == <<instances, lock, spc, scls, sret, calls, nextObj, ctorRuns,
              ctorFails, returned>>

VARIABLES
    \* create_logger and the root channel
    hs,           \* every handler object made so far: id -> its fields
    rootHandlers, \* logging.getLogger(None).handlers, a list of ids
    rootLevel,    \* the root channel's level
    lpc,          \* thread -> position inside create_logger
    lkw,          \* thread -> the kwargs of its create_logger call
    lcopy,        \* thread -> what is left of root.handlers[:] to remove
    lnew,         \* thread -> what is left of `handlers` to attach
    lret,         \* thread -> outcome of its last call
    created,      \* create_logger calls started so far
    lastKw,       \* the kwargs of the latest call (history)
    lastHandlers, \* handlers built or supplied by the latest call (history)
    prevAttached, \* handlers attached when the latest call began (history)
    everAttached  \* handlers that were ever attached to root (history)

logVars == <<hs, rootHandlers, rootLevel, lpc, lkw, lcopy, lnew, lret,
             created, lastKw, lastHandlers, prevAttached, everAttached>>

VARIABLES
    \* formatting one event
    rec,      \* the LogRecord, as the formatters have left it
    lastIn,   \* the record as it was handed to the latest format call
    out,      \* the latest format call: who, for a TTY or not, error, text
    fcfg,     \* how the formatters were built: template, pathname width
    renders   \* format calls made on the record so far

fmtVars == <<rec, lastIn, out, fcfg, renders>>

VARIABLES
    \* the size-rotating file sink
    files,     \* the sink's directory: 0 is <name>, i is <name>.i
    fstream,   \* handler.stream is an open file (FALSE: None)
    rcfg,      \* how the sink was built: maxBytes, backupCount, formatter
    ops,       \* operations on the sink so far
    prevFiles, \* the directory when the latest operation began (history)
    lastOp,    \* the latest operation and what it did (history)
    gens       \* what <name> held at each rollover so far (history)

rotVars == <<files, fstream, rcfg, ops, prevFiles, lastOp, gens>>

VARIABLES
    \* the size-rotating sink, statement by statement, under threads
    xfiles,   \* the directory: 0 is <name>, i is <name>.i; each an inode or none
    xdata,    \* inode -> the messages written to it
    xobjs,    \* every file object opened so far: its inode, open or closed
    xstream,  \* handler.stream: a file object id, or 0 for None
    xlock,    \* handler.lock: the thread holding it, or NoThread
    xpc,      \* thread -> position inside handle or do_rollover
    xop,      \* thread -> the call it runs
    xmsg,     \* thread -> the line of the record it handles
    xlocal,   \* thread -> `stream`, the local variable of StreamHandler.emit
    xdec,     \* thread -> the inode shouldRollover measured (history)
    xops,     \* calls started so far
    xwrote,   \* what was written: the line, and the name its file had (history)
    xtwice    \* a write rolled over a file it had not measured (history)

raceVars == <<xfiles, xdata, xobjs, xstream, xlock, xpc, xop, xmsg, xlocal,
              xdec, xops, xwrote, xtwice>>

VARIABLES
    \* events logged through the Logger that create_logger returns
    logged    \* the latest event: after which call, its level, who wrote it

useVars == <<logged>>

VARIABLES
    \* create_logger called by threads at the same time
    mine      \* thread -> the `handlers` list of its call, once it has one

concVars == <<mine>>

VARIABLES
    \* a singleton type whose constructor constructs another singleton type
    outer     \* thread -> the type whose constructor waits for a nested call

nestVars == <<outer>>

VARIABLES
    \* singleton types constructed with arguments, and their renderings
    made,     \* type -> the attributes its instance holds, or NoInst
    first,    \* type -> the arguments of the call that constructed it (history)
    given,    \* type -> the arguments of the latest call of the type (history)
    inits,    \* type -> how many times its __init__ has run (history)
    acalls,   \* calls of the singleton types so far
    shown     \* the latest rendering: by which type, of what, the result

argVars == <<made, first, given, inits, acalls, shown>>

vars == <<singVars, logVars, fmtVars, rotVars, raceVars, useVars, concVars,
          nestVars, argVars>>

\* ================================================================ singleton
SingInit ==
    /\ instances = [c \in Types |-> NoObj]
    /\ lock = NoThread
    /\ spc = [t \in Threads |-> "idle"]
    /\ scls = [t \in Threads |-> "Formatter"]
    /\ sret = [t \in Threads |-> NoObj]
    /\ calls = [t \in Threads |-> 0]
    /\ nextObj = 0
    /\ ctorRuns = [c \in Types |-> 0]
    /\ ctorFails = [c \in Types |-> 0]
    /\ returned = [c \in Types |-> {}]

\* Sequence helpers (Python list and str operations).
Range(s) == {s[i] : i \in 1 .. Len(s)}

RECURSIVE Without(_, _)
\* list.remove(x): the list without the first occurrence of x
Without(s, x) ==
    IF s = <<>> THEN <<>>
    ELSE IF Head(s) = x THEN Tail(s)
    ELSE <<Head(s)>> \o Without(Tail(s), x)

TotalFails == ctorFails["Formatter"] + ctorFails["StreamHandler"]

\* cls(*args, **kwargs): a thread enters SingletonMeta.__call__
Call(t, c) ==
    /\ spc[t] = "idle"
    /\ calls[t] < MaxCalls
    /\ spc' = [spc EXCEPT ![t] = "acquire"]
    /\ scls' = [scls EXCEPT ![t] = c]
    /\ calls' = [calls EXCEPT ![t] = @ + 1]
    /\ UNCHANGED <<instances, lock, sret, nextObj, ctorRuns, ctorFails,
                   returned>>

\* `with cls.lock:` a non-reentrant threading.Lock shared by every type
AcquireNoWait(t) ==
    /\ spc[t] = "acquire"
    /\ lock' = t
    /\ spc' = [spc EXCEPT ![t] = "check"]
    /\ UNCHANGED <<instances, scls, sret, calls, nextObj, ctorRuns,
                   ctorFails, returned>>

Acquire(t) ==
    /\ spc[t] = "acquire"
    /\ lock = NoThread
    /\ lock' = t
    /\ spc' = [spc EXCEPT ![t] = "check"]
    /\ UNCHANGED <<instances, scls, sret, calls, nextObj, ctorRuns,
                   ctorFails, returned>>

\* `if cls not in cls.instances:`
Check(t) ==
    /\ spc[t] = "check"
    /\ spc' = [spc EXCEPT ![t] =
                  IF instances[scls[t]] = NoObj THEN "ctor" ELSE "release"]
    /\ UNCHANGED <<instances, lock, scls, sret, calls, nextObj, ctorRuns,
                   ctorFails, returned>>

\* `cls.instances[cls] = super().__call__(*args, **kwargs)`, constructor returns
CtorOk(t) ==
    /\ spc[t] = "ctor"
    /\ nextObj' = nextObj + 1
    /\ instances' = [instances EXCEPT ![scls[t]] = nextObj + 1]
    /\ ctorRuns' = [ctorRuns EXCEPT ![scls[t]] = @ + 1]
    /\ spc' = [spc EXCEPT ![t] = "release"]
    /\ UNCHANGED <<lock, scls, sret, calls, ctorFails, returned>>

\* A mutant: the raising constructor leaves a half-built object registered.
CtorRaiseCaches(t) ==
    /\ spc[t] = "ctor"
    /\ TotalFails < MaxFails
    /\ nextObj' = nextObj + 1
    /\ instances' = [instances EXCEPT ![scls[t]] = nextObj + 1]
    /\ ctorRuns' = [ctorRuns EXCEPT ![scls[t]] = @ + 1]
    /\ ctorFails' = [ctorFails EXCEPT ![scls[t]] = @ + 1]
    /\ lock' = NoThread
    /\ sret' = [sret EXCEPT ![t] = Raised]
    /\ spc' = [spc EXCEPT ![t] = "idle"]
    /\ UNCHANGED <<scls, calls, returned>>

\* The constructor raises: the assignment never happens, the with-block's
\* exit releases the lock and the exception leaves __call__.
CtorRaise(t) ==
    /\ spc[t] = "ctor"
    /\ TotalFails < MaxFails
    /\ nextObj' = nextObj + 1
    /\ ctorRuns' = [ctorRuns EXCEPT ![scls[t]] = @ + 1]
    /\ ctorFails' = [ctorFails EXCEPT ![scls[t]] = @ + 1]
    /\ lock' = NoThread
    /\ sret' = [sret EXCEPT ![t] = Raised]
    /\ spc' = [spc EXCEPT ![t] = "idle"]
    /\ UNCHANGED <<instances, scls, calls, returned>>

\* end of the with-block
Release(t) ==
    /\ spc[t] = "release"
    /\ lock' = NoThread
    /\ spc' = [spc EXCEPT ![t] = "return"]
    /\ UNCHANGED <<instances, scls, sret, calls, nextObj, ctorRuns,
                   ctorFails, returned>>

\* `return cls.instances[cls]`, outside the lock
Return(t) ==
    /\ spc[t] = "return"
    /\ sret' = [sret EXCEPT ![t] = instances[scls[t]]]
    /\ returned' = [returned EXCEPT ![scls[t]] = @ \cup {instances[scls[t]]}]
    /\ spc' = [spc EXCEPT ![t] = "idle"]
    /\ UNCHANGED <<instances, lock, scls, calls, nextObj, ctorRuns,
                   ctorFails>>

SingNext ==
    /\ \/ \E t \in Threads, c \in Types : Call(t, c)
       \/ \E t \in Threads : Acquire(t)
       \/ \E t \in Threads : Check(t)
       \/ \E t \in Threads : CtorOk(t)
       \/ \E t \in Threads : CtorRaise(t)
       \/ \E t \in Threads : Release(t)
       \/ \E t \in Threads : Return(t)
    /\ UNCHANGED <<logVars, fmtVars, rotVars, raceVars, useVars, concVars, nestVars, argVars>>


\* ------------------------------------------------------------------ C1
\* C1: whatever the interleaving of the threads that construct one singleton
\* type, at most one constructor invocation ever completes, every __call__
\* that returns gives the same object, and a type whose constructor never
\* raised has had its constructor run exactly once as soon as it is
\* registered or returned.
C1_OneInstance ==
    \A c \in Types :
        /\ ctorRuns[c] - ctorFails[c] <= 1
        /\ Cardinality(returned[c]) <= 1
        /\ NoObj \notin returned[c]
        /\ returned[c] # {} => returned[c] = {instances[c]}
        /\ (ctorFails[c] = 0 /\ (returned[c] # {} \/ instances[c] # NoObj))
              => ctorRuns[c] = 1

\* Two threads have both returned from constructing the same type, and one
\* of them has done so twice.
C1_Witness ==
    /\ \A t \in Threads : spc[t] = "idle" /\ scls[t] = "Formatter"
                          /\ sret[t] = instances["Formatter"]
                          /\ sret[t] # NoObj
    /\ calls[1] = 2 /\ calls[2] >= 1
    /\ ctorRuns["Formatter"] = 1

\* ------------------------------------------------------------------ C2
\* C2: when the constructor raises, the caller sees the failure, the registry
\* has no entry for the type, the lock is free, and the next __call__ that
\* checks the registry for that type goes on to run the constructor again.
C2_RaiseStep(t) ==
    /\ spc[t] = "ctor"
    /\ ctorFails'[scls[t]] = ctorFails[scls[t]] + 1

C2_FailureLeavesNothing ==
    [][\A t \in Threads :
          /\ C2_RaiseStep(t) =>
                /\ sret'[t] = Raised
                /\ spc'[t] = "idle"
                /\ instances'[scls[t]] = NoObj
                /\ lock' = NoThread
          /\ (spc[t] = "check" /\ instances[scls[t]] = NoObj
                /\ spc'[t] # spc[t]) => spc'[t] = "ctor"]_vars

\* A constructor raised once, and a later call constructed the type.
C2_Witness ==
    /\ ctorFails["Formatter"] = 1
    /\ ctorRuns["Formatter"] = 2
    /\ instances["Formatter"] # NoObj
    /\ \E t \in Threads : sret[t] = instances["Formatter"]
    /\ lock = NoThread

\* ============================================================ create_logger
MaxCreate == 2

INFO == 20
ERROR == 40
\* The handler objects that exist once the module is imported.
StderrH == 1
StdoutH == 2

\* A handler object: `kind` is the wrapped logging handler's class, `dest`
\* its stream or file name, `closed` logging.Handler._closed, `fd` whether a
\* file handler holds an open file, `fmt` the formatter it was given
\* (0: the Formatter class itself, the default of Handler.__init__; -1: a
\* Formatter instance the application built; else the number of the
\* create_logger call that built the formatter), `by` the
\* create_logger call that built it (0: built outside create_logger).
NewHandler(kind, dest, level, fmt, by) ==
    [kind |-> kind, dest |-> dest, closed |-> FALSE, fd |-> (kind = "file"),
     level |-> level, fmt |-> fmt, by |-> by]

\* create_logger() with no option at all: every kwargs.get gives its default.
NoKwargs ==
    [given |-> FALSE, handlers |-> <<>>, stream |-> "none",
     filename |-> "none", level |-> INFO, name |-> FALSE]

\* stderr = StreamHandler(); stdout = StreamHandler(sys.stdout)
LogInit ==
    /\ hs = << NewHandler("stream", "stderr", 0, 0, 0),
               NewHandler("stream", "stdout", 0, 0, 0) >>
    /\ rootHandlers = <<>>
    /\ rootLevel = 30
    /\ lpc = [t \in Threads |-> "idle"]
    /\ lkw = [t \in Threads |-> NoKwargs]
    /\ lcopy = [t \in Threads |-> <<>>]
    /\ lnew = [t \in Threads |-> <<>>]
    /\ lret = [t \in Threads |-> "none"]
    /\ created = 0
    /\ lastKw = NoKwargs
    /\ lastHandlers = {}
    /\ prevAttached = {}
    /\ everAttached = {}

\* The values of the `handlers` option the callers pass: lists of handler
\* objects that already exist (`given` tells whether the option is present).
SuppliedLists ==
    { <<>>, <<StderrH>>, <<StderrH, StdoutH>> }
      \cup { <<h>> : h \in {i \in 1 .. Len(hs) : hs[i].kind = "file"} }
      \cup { <<StderrH, h>> : h \in {i \in 1 .. Len(hs) : hs[i].kind = "file"
                                                          /\ hs[i].by = 0} }
      \cup { <<h>> : h \in {i \in 1 .. Len(hs) : hs[i].fmt = -1} }

\* The options of a call. The options are read independently of one another
\* (one kwargs.get each), so the level and name options vary on the plainest
\* calls only.
Kwargs ==
    [given : {FALSE}, handlers : {<<>>}, stream : {"none", "stdout"},
     filename : {"none", "a.log", "b.log"}, level : {INFO}, name : {FALSE}]
      \cup [given : {FALSE}, handlers : {<<>>}, stream : {"none"},
            filename : {"none"}, level : {ERROR}, name : BOOLEAN]
      \cup [given : {TRUE}, handlers : SuppliedLists, stream : {"none"},
            filename : {"none"}, level : {INFO}, name : {FALSE}]
      \cup [given : {TRUE}, handlers : {<<StderrH>>}, stream : {"none"},
            filename : {"none"}, level : {ERROR}, name : {TRUE}]

\* Application code builds a file sink of its own, to pass it as `handlers`:
\* RotatingFileHandler("u.log") with the default level and formatter.
UserFileHandler ==
    /\ \A i \in 1 .. Len(hs) : ~(hs[i].kind = "file" /\ hs[i].by = 0)
    /\ hs' = Append(hs, NewHandler("file", "u.log", 0, 0, 0))
    /\ UNCHANGED <<rootHandlers, rootLevel, lpc, lkw, lcopy, lnew, lret,
                   created, lastKw, lastHandlers, prevAttached, everAttached>>

\* Application code builds a stream sink of its own, to pass it as
\* `handlers`: StreamHandler(sys.stdout, 10, Formatter()).
UserStreamHandler ==
    /\ \A i \in 1 .. Len(hs) : hs[i].fmt # -1
    /\ hs' = Append(hs, NewHandler("stream", "stdout", 10, -1, 0))
    /\ UNCHANGED <<rootHandlers, rootLevel, lpc, lkw, lcopy, lnew, lret,
                   created, lastKw, lastHandlers, prevAttached, everAttached>>

\* create_logger(**kwargs): `root = logging.getLogger(None)` and the copy
\* `root.handlers[:]` the first loop iterates over.
clStart(t, kw) ==
    /\ lpc[t] = "idle"
    /\ created < MaxCreate
    /\ created' = created + 1
    /\ lkw' = [lkw EXCEPT ![t] = kw]
    /\ lastKw' = kw
    /\ lcopy' = [lcopy EXCEPT ![t] = rootHandlers]
    /\ lnew' = [lnew EXCEPT ![t] = <<>>]
    /\ lret' = [lret EXCEPT ![t] = "none"]
    /\ prevAttached' = Range(rootHandlers)
    /\ lastHandlers' = {}
    /\ lpc' = [lpc EXCEPT ![t] = "remove"]
    /\ UNCHANGED <<hs, rootHandlers, rootLevel, everAttached>>

\* A mutant: the handler is detached but never closed.
clRemoveNoClose(t) ==
    /\ lpc[t] = "remove"
    /\ lcopy[t] # <<>>
    /\ rootHandlers' = Without(rootHandlers, Head(lcopy[t]))
    /\ lcopy' = [lcopy EXCEPT ![t] = Tail(@)]
    /\ UNCHANGED <<hs, rootLevel, lpc, lkw, lnew, lret, created, lastKw,
                   lastHandlers, prevAttached, everAttached>>

\* One turn of `for handler in root.handlers[:]`: root.removeHandler(handler)
\* (which does nothing when the handler is no longer in the list), then
\* handler.close(), which sets _closed and closes a file handler's file.
clRemove(t) ==
    /\ lpc[t] = "remove"
    /\ lcopy[t] # <<>>
    /\ rootHandlers' = Without(rootHandlers, Head(lcopy[t]))
    /\ hs' = [hs EXCEPT ![Head(lcopy[t])].closed = TRUE,
                        ![Head(lcopy[t])].fd = FALSE]
    /\ lcopy' = [lcopy EXCEPT ![t] = Tail(@)]
    /\ UNCHANGED <<rootLevel, lpc, lkw, lnew, lret, created, lastKw,
                   lastHandlers, prevAttached, everAttached>>

\* A mutant: the file handler is built without the call's formatter.
DefaultHandlersOwnFormatter(kw, call) ==
    << NewHandler("stream",
                  IF kw.stream = "none" THEN "stderr" ELSE kw.stream,
                  kw.level, call, call) >>
      \o (IF kw.filename # "none"
          THEN << NewHandler("file", kw.filename, kw.level, 0, call) >>
          ELSE <<>>)

\* The handlers the call builds when no `handlers` option is given:
\* StreamHandler(stream, level, formatter), where a stream of None makes
\* logging.StreamHandler fall back to sys.stderr, and, with a filename,
\* RotatingFileHandler(filename, filemode, level=level, formatter=formatter).
DefaultHandlers(kw, call) ==
    << NewHandler("stream",
                  IF kw.stream = "none" THEN "stderr" ELSE kw.stream,
                  kw.level, call, call) >>
      \o (IF kw.filename # "none"
          THEN << NewHandler("file", kw.filename, kw.level, call, call) >>
          ELSE <<>>)

\* The ids a list of freshly built handlers gets.
NewIds(n) == [i \in 1 .. n |-> Len(hs) + i]

\* `if len(root.handlers) == 0:` up to the second loop: root.setLevel(level),
\* the formatter, and the list `handlers` (the option, or the defaults).
clBuild(t) ==
    /\ lpc[t] = "remove"
    /\ lcopy[t] = <<>>
    /\ IF Len(rootHandlers) = 0
       THEN /\ rootLevel' = lkw[t].level
            /\ IF ~lkw[t].given
               THEN LET built == DefaultHandlers(lkw[t], created)
                    IN /\ hs' = hs \o built
                       /\ lnew' = [lnew EXCEPT ![t] = NewIds(Len(built))]
                       /\ lastHandlers' = Range(NewIds(Len(built)))
               ELSE /\ hs' = hs
                    /\ lnew' = [lnew EXCEPT ![t] = lkw[t].handlers]
                    /\ lastHandlers' = Range(lkw[t].handlers)
            /\ lpc' = [lpc EXCEPT ![t] = "attach"]
       ELSE /\ lpc' = [lpc EXCEPT ![t] = "return"]
            /\ UNCHANGED <<hs, rootLevel, lnew, lastHandlers>>
    /\ UNCHANGED <<rootHandlers, lkw, lcopy, lret, created, lastKw,
                   prevAttached, everAttached>>

\* One turn of `for handler in handlers: handler.add_handler(root)`:
\* logger.addHandler appends the handler unless it is already in the list.
clAttach(t) ==
    /\ lpc[t] = "attach"
    /\ lnew[t] # <<>>
    /\ rootHandlers' = IF Head(lnew[t]) \in Range(rootHandlers)
                       THEN rootHandlers
                       ELSE Append(rootHandlers, Head(lnew[t]))
    /\ everAttached' = everAttached \cup {Head(lnew[t])}
    /\ lnew' = [lnew EXCEPT ![t] = Tail(@)]
    /\ UNCHANGED <<hs, rootLevel, lpc, lkw, lcopy, lret, created, lastKw,
                   lastHandlers, prevAttached>>

\* logging.captureWarnings(capture_warnings), the end of the if-block
clCapture(t) ==
    /\ lpc[t] = "attach"
    /\ lnew[t] = <<>>
    /\ lpc' = [lpc EXCEPT ![t] = "return"]
    /\ UNCHANGED <<hs, rootHandlers, rootLevel, lkw, lcopy, lnew, lret,
                   created, lastKw, lastHandlers, prevAttached, everAttached>>

\* `name = kwargs.get("name", None); return get_logger(name, **kwargs)`:
\* with a name option, kwargs passes `name` a second time and the call of
\* get_logger raises TypeError. The call's locals end here.
clReturn(t) ==
    /\ lpc[t] = "return"
    /\ lret' = [lret EXCEPT ![t] = IF lkw[t].name THEN "TypeError"
                                   ELSE "logger"]
    /\ lpc' = [lpc EXCEPT ![t] = "idle"]
    /\ lkw' = [lkw EXCEPT ![t] = NoKwargs]
    /\ UNCHANGED <<hs, rootHandlers, rootLevel, lcopy, lnew, created,
                   lastKw, lastHandlers, prevAttached, everAttached>>

\* No create_logger call is in progress.
Quiet == \A t \in Threads : lpc[t] = "idle"

\* The levels of Logger.debug, info, warning, error, critical, exception.
LoggerMethods == {10, 20, 30, 40, 50, 60}

NoLogged == [call |-> 0, level |-> 0, to |-> {}]

\* No event has been logged yet.
UseInit == logged = NoLogged

\* One of the Logger methods, called once create_logger has returned:
\* self.logger._log(levelno, msg, args) makes the record and hands it to
\* callHandlers, and isEnabledFor is not asked. Each handler of the root
\* channel whose own level the record reaches handles it, and writes it
\* unless its formatter is the class (format raises, handleError).
logEvent(levelno) ==
    /\ Quiet
    /\ created > 0
    /\ logged' = [call |-> created, level |-> levelno,
                  to |-> {h \in Range(rootHandlers) :
                             levelno >= hs[h].level /\ hs[h].fmt # 0}]
    /\ UNCHANGED logVars

\* create_logger calls made one after another.
LogNext ==
    /\ \/ UserFileHandler
       \/ \E t \in Threads : \E kw \in Kwargs : Quiet /\ clStart(t, kw)
       \/ \E t \in Threads : clRemove(t)
       \/ \E t \in Threads : clBuild(t)
       \/ \E t \in Threads : clAttach(t)
       \/ \E t \in Threads : clCapture(t)
       \/ \E t \in Threads : clReturn(t)
    /\ UNCHANGED <<singVars, fmtVars, rotVars, raceVars, useVars, concVars, nestVars, argVars>>

\* create_logger calls made one after another, with sinks the application
\* built itself, and events logged in between.
UseNext ==
    /\ \/ UserStreamHandler /\ UNCHANGED useVars
       \/ \E t \in Threads : \E kw \in Kwargs :
             Quiet /\ clStart(t, kw) /\ UNCHANGED useVars
       \/ \E t \in Threads : clRemove(t) /\ UNCHANGED useVars
       \/ \E t \in Threads : clBuild(t) /\ UNCHANGED useVars
       \/ \E t \in Threads : clAttach(t) /\ UNCHANGED useVars
       \/ \E t \in Threads : clCapture(t) /\ UNCHANGED useVars
       \/ \E t \in Threads : clReturn(t) /\ UNCHANGED useVars
       \/ \E levelno \in LoggerMethods : logEvent(levelno)
    /\ UNCHANGED <<singVars, fmtVars, rotVars, raceVars, concVars, nestVars, argVars>>


\* ------------------------------------------------------------------ C3
\* C3: when create_logger calls are made one after another, after each call
\* the root channel's handlers are exactly the handlers the latest call built
\* or was given, each once; every handler that was attached when that call
\* began has been closed; every handler of an earlier call that the latest
\* call did not bring is detached, closed and holds no open file; and a call
\* without the handlers option leaves exactly one stream handler.
StreamsAttached == {h \in Range(rootHandlers) : hs[h].kind = "stream"}

C3_OnlyLatestHandlers ==
    (Quiet /\ created > 0) =>
        /\ Range(rootHandlers) = lastHandlers
        /\ Cardinality(Range(rootHandlers)) = Len(rootHandlers)
        /\ \A h \in prevAttached : hs[h].closed
        /\ \A h \in everAttached \ lastHandlers :
              /\ h \notin Range(rootHandlers)
              /\ hs[h].closed
              /\ ~hs[h].fd
        /\ ~lastKw.given => Cardinality(StreamsAttached) = 1

\* Two calls with different file names have returned: the second call's two
\* handlers are attached, the first call's file handler is closed.
C3_Witness ==
    /\ Quiet
    /\ created = 2
    /\ Len(rootHandlers) = 2
    /\ \E h \in everAttached \ lastHandlers :
          hs[h].kind = "file" /\ hs[h].dest = "a.log" /\ hs[h].closed
    /\ \E h \in lastHandlers : hs[h].kind = "file" /\ hs[h].dest = "b.log"
                               /\ hs[h].fd

\* ================================================================== strings
\* A str is a sequence of one-character strings; a colour code of the
\* palette is one element.
MaxBody == 4

\* A value computed once and used under a name: `name = value` in the code.
Bind(value, Use(_)) == Use(value)

RECURSIVE Flatten(_)
\* "".join(parts)
Flatten(parts) ==
    IF parts = <<>> THEN <<>>
    ELSE IF Len(parts) = 1 THEN parts[1]
    ELSE LET h == Len(parts) \div 2
         IN Flatten(SubSeq(parts, 1, h))
              \o Flatten(SubSeq(parts, h + 1, Len(parts)))

\* s.startswith(p)
StartsWith(s, p) == Len(p) <= Len(s) /\ SubSeq(s, 1, Len(p)) = p

\* sub in s
Contains(s, sub) ==
    \E i \in 1 .. (Len(s) - Len(sub) + 1) : SubSeq(s, i, i + Len(sub) - 1) = sub

\* s[n:] for n >= 0
From(s, n) == SubSeq(s, n + 1, Len(s))

\* s[-n:], which is all of s when n is 0 or n >= len(s)
LastN(s, n) ==
    IF n = 0 \/ n >= Len(s) THEN s ELSE SubSeq(s, Len(s) - n + 1, Len(s))

\* The positions at or after `from` where sub occurs in s.
Matches(s, sub, from) ==
    {i \in from .. (Len(s) - Len(sub) + 1) : SubSeq(s, i, i + Len(sub) - 1) = sub}

Min(S) == CHOOSE x \in S : \A y \in S : x <= y

RECURSIVE ReplaceFrom(_, _, _, _)
\* s[from:].replace(old, new), one occurrence after the other
ReplaceFrom(s, old, new, from) ==
    IF Matches(s, old, from) = {} THEN SubSeq(s, from, Len(s))
    ELSE LET i == Min(Matches(s, old, from))
         IN SubSeq(s, from, i - 1) \o new
              \o ReplaceFrom(s, old, new, i + Len(old))

\* s.replace(old, new) for a non-empty old: left to right, not overlapping
ReplaceAll(s, old, new) ==
    IF old = <<>> THEN s ELSE ReplaceFrom(s, old, new, 1)

RECURSIVE SplitFrom(_, _, _)
SplitFrom(s, sep, from) ==
    IF Matches(s, sep, from) = {} THEN SubSeq(s, from, Len(s))
    ELSE SplitFrom(s, sep, Min(Matches(s, sep, from)) + Len(sep))

\* s.split(sep)[-1]: what follows the last of the occurrences of sep, taken
\* left to right without overlap
SplitLast(s, sep) == SplitFrom(s, sep, 1)

Spaces(n) == [i \in 1 .. n |-> " "]

\* "%Ns" % s: right-justified in a field of width w
PadLeft(s, w) == Spaces(w - Len(s)) \o s

Digits == <<"0", "1", "2", "3", "4", "5", "6", "7", "8", "9">>

RECURSIVE ToStr(_)
\* str(n) for n >= 0
ToStr(n) ==
    IF n < 10 THEN <<Digits[n + 1]>>
    ELSE ToStr(n \div 10) \o <<Digits[(n % 10) + 1]>>

\* The literals of the source.
StdinTag == <<"<", "s", "t", "d", "i", "n", ">">>
ShellWord == <<"s", "h", "e", "l", "l">>
ModuleTag == <<"<", "m", "o", "d", "u", "l", "e", ">">>
LambdaTag == <<"<", "l", "a", "m", "b", "d", "a", ">">>
LambdaName == <<"l", "a", "m", "b", "d", "a">>
Ellipsis == <<".", ".", ".">>
SitePackages == <<"s", "i", "t", "e", "-", "p", "a", "c", "k", "a", "g",
                  "e", "s">>
PATH_SEP == "/"
\* os.getcwd() / os.path.abspath(os.curdir) of the running process
Cwd == <<"/", "w">>
PyExt == <<".", "p", "y">>

\* ------------------------------------------------------------------ levels
\* logging._levelToName
levelToName ==
    [n \in {0, 10, 20, 30, 40, 50, 60} |->
        CASE n = 60 -> <<"T", "R", "A", "C", "E">>
          [] n = 50 -> <<"F", "A", "T", "A", "L">>
          [] n = 40 -> <<"E", "R", "R", "O", "R">>
          [] n = 30 -> <<"W", "A", "R", "N">>
          [] n = 20 -> <<"I", "N", "F", "O">>
          [] n = 10 -> <<"D", "E", "B", "U", "G">>
          [] n = 0 -> <<"N", "O", "T", "S", "E", "T">>]

\* logging.getLevelName(levelno), the record's levelname
LevelName(levelno) ==
    IF levelno \in DOMAIN levelToName THEN levelToName[levelno]
    ELSE <<"L", "e", "v", "e", "l", " ">> \o ToStr(levelno)

\* Formatter.level_style: level -> colour code of TTYPalette
level_style ==
    [n \in {0, 10, 20, 30, 40, 50, 60} |->
        CASE n = 60 -> "ESC[DARK_VIOLET"
          [] n = 50 -> "ESC[RED_1"
          [] n = 40 -> "ESC[ORANGE_RED_1"
          [] n = 30 -> "ESC[YELLOW_3"
          [] n = 20 -> "ESC[GREEN_3"
          [] n = 10 -> "ESC[GREY_50"
          [] n = 0 -> "ESC[AQUA"]

\* Formatter.reset_style
reset_style == "ESC[DEFAULT"

\* miroslava.utils.logger._tty_levels (logging.CRITICAL .. logging.NOTSET)
tty_levels ==
    [n \in {0, 10, 20, 30, 40, 50} |->
        CASE n = 50 -> "ESC[RED_1"
          [] n = 40 -> "ESC[DARK_ORANGE"
          [] n = 30 -> "ESC[YELLOW"
          [] n = 20 -> "ESC[GREEN_1"
          [] n = 10 -> "ESC[GREY_50"
          [] n = 0 -> "ESC[AQUA"]

\* miroslava.utils.logger._tty_reset
tty_reset == "ESC[DEFAULT"

\* The escape sequences: every colour code that the tables hold.
EscCodes ==
    {level_style[n] : n \in DOMAIN level_style}
      \cup {tty_levels[n] : n \in DOMAIN tty_levels}
      \cup {reset_style, tty_reset}

\* The text without its escape sequences.
Strip(s) == SelectSeq(s, LAMBDA c : c \notin EscCodes)

\* The number of escape sequences in the text.
EscCount(s) == Len(s) - Len(Strip(s))

\* ------------------------------------------------------- _miroslava Formatter
\* BASIC_FORMAT and the other templates the formatters are built with. A
\* template is a list of items: a literal text, or a field %(name)s with an
\* optional minimum width.
Lit(s) == [k |-> "lit", v |-> "", s |-> s, w |-> 0]
Fld(name, w) == [k |-> "fld", v |-> name, s |-> <<>>, w |-> w]

BASIC_FORMAT ==
    << Fld("asctime", 0), Lit(<<" ">>), Fld("color", 0), Fld("levelname", 0),
       Fld("reset", 0), Lit(<<" ", "[">>), Fld("threadName", 0),
       Lit(<<"]", " ">>), Fld("caller", 0), Lit(<<":">>), Fld("lineno", 0),
       Lit(<<" ", ":", " ">>), Fld("message", 0) >>

\* "%(levelname)s %(caller)s %(message)s": a caller, no colour
PlainFormat ==
    << Fld("levelname", 0), Lit(<<" ">>), Fld("caller", 0), Lit(<<" ">>),
       Fld("message", 0) >>

\* "%(color)s%(levelname)s%(reset)s %(message)s": colour, no caller
ColorFormat ==
    << Fld("color", 0), Fld("levelname", 0), Fld("reset", 0), Lit(<<" ">>),
       Fld("message", 0) >>

\* Formatter.__init__(fmt, datefmt): `fmt` None stands for BASIC_FORMAT.
NewFormatter(fmt) ==
    IF fmt = <<>> THEN [fmt |-> BASIC_FORMAT, use_default |-> TRUE]
    ELSE [fmt |-> fmt, use_default |-> FALSE]

\* `"caller" in self.fmt`
MentionsCaller(fmt) ==
    \E i \in 1 .. Len(fmt) :
        \/ fmt[i].k = "fld" /\ fmt[i].v = "caller"
        \/ fmt[i].k = "lit" /\ Contains(fmt[i].s, <<"c", "a", "l", "l", "e", "r">>)

\* Formatter.format_path, without the test for the shell.
format_pathNoShell(path, func) ==
    LET sep == IF Contains(path, SitePackages) THEN SitePackages ELSE Cwd
        dotted == ReplaceAll(SplitLast(path, sep), <<PATH_SEP>>, <<".">>)
        start == IF path[1] # "." THEN 1 ELSE 0
        cut == SubSeq(dotted, start + 1, Len(dotted) - 3)
    IN IF func # ModuleTag THEN cut \o <<".">> \o func ELSE cut

\* Formatter.format_path(path, func)
format_path(path, func) ==
    IF path = StdinTag THEN ShellWord
    ELSE LET sep == IF Contains(path, SitePackages) THEN SitePackages
                    ELSE Cwd
             dotted == ReplaceAll(SplitLast(path, sep), <<PATH_SEP>>, <<".">>)
             start == IF path[1] # "." THEN 1 ELSE 0
             cut == SubSeq(dotted, start + 1, Len(dotted) - 3)
         IN IF func # ModuleTag THEN cut \o <<".">> \o func ELSE cut

\* A traceback is the list of its entries, from the frame that caught the
\* exception (the object sys.exc_info() gives) along tb_next to the frame
\* that raised it; <<>> is None. An entry is its frame's function name and
\* its line number.
NoExc == [has |-> FALSE, klass |-> <<>>, emsg |-> <<>>, tb |-> <<>>]

\* Formatter.formatException(ei): reads the first traceback entry only.
formatException(ei) ==
    LET func == IF ei.tb # <<>> THEN ei.tb[1].func ELSE ModuleTag
        lineno == IF ei.tb # <<>> THEN ei.tb[1].lineno ELSE 0
        clause == IF func = ModuleTag THEN <<"o", "n">>
                  ELSE <<"i", "n", " ">> \o func \o <<"(", ")", " ", "o", "n">>
    IN ei.klass \o <<":", " ">> \o ei.emsg \o <<" ">> \o clause
         \o <<" ", "l", "i", "n", "e", " ">> \o ToStr(lineno)

\* A mutant: the reset attribute is the text "[0m" and no escape sequence.
colorizeBadReset(record) ==
    IF "isatty" \in record.attrs /\ record.isatty
    THEN IF record.levelno \in DOMAIN level_style
         THEN [err |-> "none",
               rec |-> [record EXCEPT !.color = <<level_style[record.levelno]>>,
                                      !.reset = <<"[", "0", "m">>,
                                      !.attrs = @ \cup {"color", "reset"}]]
         ELSE [err |-> "KeyError", rec |-> record]
    ELSE [err |-> "none",
          rec |-> [record EXCEPT !.color = <<>>, !.reset = <<>>,
                                 !.attrs = @ \cup {"color", "reset"}]]

\* A mutant: a level without a colour gets the colour of NOTSET.
colorizeDefaults(record) ==
    IF "isatty" \in record.attrs /\ record.isatty
    THEN [err |-> "none",
          rec |-> [record EXCEPT
                      !.color = IF record.levelno \in DOMAIN level_style
                                THEN <<level_style[record.levelno]>>
                                ELSE <<level_style[0]>>,
                      !.reset = <<reset_style>>,
                      !.attrs = @ \cup {"color", "reset"}]]
    ELSE [err |-> "none",
          rec |-> [record EXCEPT !.color = <<>>, !.reset = <<>>,
                                 !.attrs = @ \cup {"color", "reset"}]]

\* Formatter.colorize(record): the record with its color and reset
\* attributes, or the KeyError of level_style[record.levelno].
colorize(record) ==
    IF "isatty" \in record.attrs /\ record.isatty
    THEN IF record.levelno \in DOMAIN level_style
         THEN [err |-> "none",
               rec |-> [record EXCEPT !.color = <<level_style[record.levelno]>>,
                                      !.reset = <<reset_style>>,
                                      !.attrs = @ \cup {"color", "reset"}]]
         ELSE [err |-> "KeyError", rec |-> record]
    ELSE [err |-> "none",
          rec |-> [record EXCEPT !.color = <<>>, !.reset = <<>>,
                                 !.attrs = @ \cup {"color", "reset"}]]

\* Formatter.decolorize(record)
decolorize(record) ==
    [record EXCEPT !.color = <<>>, !.reset = <<>>,
                   !.attrs = @ \ {"color", "reset"}]

\* ------------------------------------------------- logging.Formatter.format
\* The values the templates read from a record.
ASCTIME == <<"0", "9", ":", "3", "0">>
MSECS == <<"0", "0", "7">>
PROCESS == <<"4", "2">>
THREADNAME == <<"M", "a", "i", "n">>

\* The number of %s in a message template.
NumSlots(msg) == Cardinality(Matches(msg, <<"%", "s">>, 1))

RECURSIVE FillFrom(_, _, _)
FillFrom(msg, args, from) ==
    IF Matches(msg, <<"%", "s">>, from) = {} THEN SubSeq(msg, from, Len(msg))
    ELSE LET i == Min(Matches(msg, <<"%", "s">>, from))
         IN SubSeq(msg, from, i - 1) \o Head(args)
              \o FillFrom(msg, Tail(args), i + 2)

\* msg % args, for as many arguments as the template has %s
Fill(msg, args) == FillFrom(msg, args, 1)

\* LogRecord.getMessage(): `msg % args` only when there are args; the
\* operator % raises TypeError when their number differs from that of the %s.
getMessage(record) ==
    IF record.args = <<>> THEN [err |-> "none", s |-> record.msg]
    ELSE IF NumSlots(record.msg) # Len(record.args)
         THEN [err |-> "TypeError", s |-> <<>>]
         ELSE [err |-> "none", s |-> Fill(record.msg, record.args)]

\* The attributes a template may name besides the record's own.
ExtraAttrs == {"caller", "color", "reset", "isatty"}

\* record.__dict__[name] as text
FieldVal(record, name, message) ==
    CASE name = "asctime" -> ASCTIME
      [] name = "msecs" -> MSECS
      [] name = "process" -> PROCESS
      [] name = "threadName" -> THREADNAME
      [] name = "levelname" -> LevelName(record.levelno)
      [] name = "lineno" -> ToStr(record.lineno)
      [] name = "pathname" -> record.pathname
      [] name = "message" -> message
      [] name = "caller" -> record.caller
      [] name = "color" -> record.color
      [] name = "reset" -> record.reset
      [] OTHER -> <<>>

\* traceback.print_exception as logging.Formatter.formatException gives it:
\* the header, one line per entry, then "<type>: <message>".
RECURSIVE FrameLines(_)
FrameLines(tb) ==
    IF tb = <<>> THEN <<>>
    ELSE <<" ", " ">> \o tb[1].func \o <<":">> \o ToStr(tb[1].lineno)
           \o <<"\n">> \o FrameLines(Tail(tb))

TracebackText(ei) ==
    (IF ei.tb # <<>>
     THEN <<"T", "r", "a", "c", "e", "b", "a", "c", "k", ":", "\n">>
            \o FrameLines(ei.tb)
     ELSE <<>>)
      \o ei.klass \o <<":", " ">> \o ei.emsg

\* logging.Formatter(fmt, datefmt).format(record): the message, the template
\* filled from the record's attributes (KeyError for an attribute the record
\* lacks), then the traceback text of a record that carries exc_info, which
\* is cached in record.exc_text.
Render(fmt, record) ==
    Bind(getMessage(record), LAMBDA m :
      IF m.err # "none" THEN [err |-> m.err, text |-> <<>>, rec |-> record]
      ELSE IF \E i \in 1 .. Len(fmt) :
                 /\ fmt[i].k = "fld"
                 /\ fmt[i].v \in ExtraAttrs
                 /\ fmt[i].v \notin record.attrs
           THEN [err |-> "KeyError", text |-> <<>>, rec |-> record]
      ELSE Bind(Flatten([i \in 1 .. Len(fmt) |->
                           IF fmt[i].k = "lit" THEN fmt[i].s
                           ELSE PadLeft(FieldVal(record, fmt[i].v, m.s),
                                        fmt[i].w)]),
             LAMBDA body :
           Bind(IF record.exc.has /\ record.exc_text = <<>>
                THEN TracebackText(record.exc) ELSE record.exc_text,
             LAMBDA etext :
                [err |-> "none",
                 text |-> IF etext # <<>>
                          THEN (IF body # <<>> /\ body[Len(body)] # "\n"
                                THEN body \o <<"\n">> ELSE body) \o etext
                          ELSE body,
                 rec |-> [record EXCEPT !.exc_text = etext]])))

\* Formatter.format, lines 206-214: the caller attribute and the exception.
formatPrepare(self, record) ==
    Bind(IF self.use_default \/ MentionsCaller(self.fmt)
         THEN Bind(IF record.funcName = LambdaTag THEN LambdaName
                   ELSE record.funcName,
                LAMBDA fn :
                   [record EXCEPT
                       !.funcName = fn,
                       !.caller = format_path(record.pathname, fn),
                       !.attrs = @ \cup {"caller"}])
         ELSE record,
      LAMBDA r1 :
         IF r1.exc.has
         THEN [r1 EXCEPT !.msg = formatException(r1.exc), !.exc = NoExc,
                         !.exc_text = <<>>]
         ELSE r1)

\* Formatter.format(record): the text, or the error that leaves the method,
\* and the record as the method leaves it.
format(self, record) ==
    Bind(formatPrepare(self, record), LAMBDA r2 :
    Bind(colorize(r2), LAMBDA c :
      IF c.err # "none" THEN [err |-> c.err, text |-> <<>>, rec |-> r2]
      ELSE Bind(Render(self.fmt, c.rec), LAMBDA t :
             IF t.err # "none"
             THEN [err |-> t.err, text |-> <<>>, rec |-> c.rec]
             ELSE [err |-> "none", text |-> t.text,
                   rec |-> decolorize(t.rec)])))

\* What stream.isatty() gives for each kind of stream: a terminal, a
\* redirected stream, an object without the method, a closed file (whose
\* isatty raises ValueError), an object whose isatty raises anything else
\* (OSError, say).
StreamKinds == {"tty", "notty", "noattr", "closed", "broken"}

\* StreamHandlerHinter.format(record) for a sink on `stream` whose formatter
\* is `self`: the isatty hint, the inherited format, `del record.isatty`.
\* Only ValueError is caught around stream.isatty().
HinterFormat(self, stream, record) ==
    Bind(format(self, [record EXCEPT !.isatty = (stream = "tty"),
                                     !.attrs = @ \cup {"isatty"}]),
      LAMBDA res :
         IF stream = "broken"
         THEN [err |-> "OSError", text |-> <<>>, rec |-> record]
         ELSE IF res.err # "none" THEN res
         ELSE [res EXCEPT !.rec = [res.rec EXCEPT !.isatty = FALSE,
                                                  !.attrs = @ \ {"isatty"}]])

\* ------------------------------------------------ miroslava (legacy) package
\* LOGGING_MSG_FMT, with the width w of its pathname field (30 in the source)
LOGGING_MSG_FMT(w) ==
    << Fld("asctime", 0), Lit(<<".">>), Fld("msecs", 3), Lit(<<" ">>),
       Fld("levelname", 8), Lit(<<" ">>), Fld("process", 8),
       Lit(<<" ", "[">>), Fld("threadName", 16), Lit(<<"]", " ">>),
       Fld("pathname", w), Lit(<<":">>), Fld("lineno", 0),
       Lit(<<" ", "-", " ">>), Fld("message", 0) >>

DefaultPathWidth == 30

\* miroslava.logger.Formatter.__init__: the limit is the width that the
\* template gives its pathname field, less 3.
LegacyFormatter(w) == [fmt |-> LOGGING_MSG_FMT(w), limit |-> w - 3]

\* miroslava.logger.Formatter.formatPath(path); path[0] of an empty string
\* raises IndexError.
formatPath(self, path) ==
    IF path = StdinTag THEN [err |-> "none", s |-> ShellWord]
    ELSE Bind(ReplaceAll(SubSeq(path, 1, Len(path) - 3), Cwd, <<>>),
           LAMBDA p1 :
              IF p1 = <<>> THEN [err |-> "IndexError", s |-> <<>>]
              ELSE Bind(ReplaceAll(
                          From(p1, IF p1[1] = PATH_SEP THEN 1 ELSE 0),
                          <<PATH_SEP>>, <<".">>),
                     LAMBDA p2 :
                        [err |-> "none",
                         s |-> IF Len(p2) > self.limit
                               THEN Ellipsis \o LastN(p2, self.limit)
                               ELSE p2]))

\* miroslava.logger.Formatter.format, lines 136-138: the record's pathname is
\* overwritten with the formatted path and the function's name.
LegacyLocate(self, record) ==
    Bind(formatPath(self, record.pathname), LAMBDA fp :
      IF fp.err # "none" THEN [err |-> fp.err, rec |-> record]
      ELSE [err |-> "none",
            rec |-> [record EXCEPT !.pathname =
                        IF record.funcName # ModuleTag /\ fp.s # ShellWord
                        THEN fp.s \o <<".">> \o record.funcName \o <<"(", ")">>
                        ELSE fp.s]])

\* miroslava.logger.Formatter.formatException(ei): LOGGING_EXC_FMT filled
\* from the first traceback entry; a traceback of None has no tb_frame.
LegacyFormatException(ei) ==
    IF ei.tb = <<>> THEN [err |-> "AttributeError", s |-> <<>>]
    ELSE LET clause == IF ei.tb[1].func = ModuleTag THEN <<"o", "n">>
                       ELSE <<"i", "n", " ">> \o ei.tb[1].func
                              \o <<"(", ")", " ", "o", "n">>
         IN [err |-> "none",
             s |-> ei.klass \o <<":", " ">> \o ei.emsg \o <<" ">> \o clause
                     \o <<" ", "l", "i", "n", "e", " ">>
                     \o ToStr(ei.tb[1].lineno)]

\* s.partition(sep)[0]
Before(s, sep) ==
    IF Matches(s, sep, 1) = {} THEN s
    ELSE SubSeq(s, 1, Min(Matches(s, sep, 1)) - 1)

\* s.strip("\n")
StripNL(s) ==
    LET kept == {i \in 1 .. Len(s) : s[i] # "\n"}
    IN IF kept = {} THEN <<>>
       ELSE SubSeq(s, Min(kept), CHOOSE x \in kept : \A y \in kept : y <= x)

\* s.replace(old, new) when old may be empty: new goes before every
\* character and after the last.
Intersperse(s, new) ==
    Flatten([i \in 1 .. Len(s) |-> new \o <<s[i]>>]) \o new

Replace(s, old, new) ==
    IF old = <<>> THEN Intersperse(s, new) ELSE ReplaceAll(s, old, new)

\* miroslava.logger.Formatter.format(record), with traceback=False: the
\* standard formatter appends the traceback text, then the exception's
\* message is replaced by formatException and the text is cut at
\* "Traceback".
LegacyFormatA(self, record) ==
    Bind(LegacyLocate(self, record), LAMBDA loc :
      IF loc.err # "none"
      THEN [err |-> loc.err, text |-> <<>>, rec |-> record]
      ELSE Bind(Render(self.fmt, loc.rec), LAMBDA t :
        IF t.err # "none"
        THEN [err |-> t.err, text |-> <<>>, rec |-> loc.rec]
        ELSE IF t.rec.exc_text = <<>>
        THEN [err |-> "none", text |-> StripNL(t.text), rec |-> t.rec]
        ELSE Bind(LegacyFormatException(t.rec.exc), LAMBDA fe :
          IF fe.err # "none"
          THEN [err |-> fe.err, text |-> <<>>, rec |-> t.rec]
          ELSE [err |-> "none",
                text |-> StripNL(Before(
                            Replace(t.text, t.rec.exc.emsg, fe.s),
                            <<"T", "r", "a", "c", "e", "b", "a", "c", "k">>)),
                rec |-> t.rec])))

\* miroslava.utils.logger.Formatter.format(record): the exception replaces
\* the message before the standard formatter runs.
LegacyFormatB(self, record) ==
    Bind(LegacyLocate(self, record), LAMBDA loc :
      IF loc.err # "none"
      THEN [err |-> loc.err, text |-> <<>>, rec |-> record]
      ELSE Bind(LegacyFormatException(loc.rec.exc), LAMBDA fe :
        IF loc.rec.exc.has /\ fe.err # "none"
        THEN [err |-> fe.err, text |-> <<>>, rec |-> loc.rec]
        ELSE Bind(IF loc.rec.exc.has
                  THEN [loc.rec EXCEPT !.msg = fe.s, !.exc = NoExc,
                                       !.exc_text = <<>>]
                  ELSE loc.rec,
               LAMBDA r2 :
          Bind(Render(self.fmt, r2), LAMBDA t :
            IF t.err # "none"
            THEN [err |-> t.err, text |-> <<>>, rec |-> r2]
            ELSE [err |-> "none", text |-> t.text, rec |-> t.rec]))))

\* The keyword arguments of miroslava.utils.logger.StreamHandler: attribute
\* name -> colour, here {"lineno": "AQUA"}.
LinenoAqua == << [key |-> "lineno", value |-> "ESC[AQUA"] >>

RECURSIVE ColorAttrs(_, _, _)
\* The loop over self.kwargs.items() of StreamHandler.format
ColorAttrs(text, kwargs, record) ==
    IF kwargs = <<>> THEN text
    ELSE LET attr == FieldVal(record, kwargs[1].key, <<>>)
         IN ColorAttrs(Replace(text, attr,
                               <<kwargs[1].value>> \o attr \o <<tty_reset>>),
                       Tail(kwargs), record)

\* miroslava.utils.logger.StreamHandler.format(record) of a sink whose
\* formatter is `self`: the formatter's text with every occurrence of the
\* level name (or of the named attributes) wrapped in a colour and a reset.
\* The stream is not asked whether it is a terminal.
LegacyStreamFormat(self, only_level, kwargs, record) ==
    Bind(LegacyFormatB(self, record), LAMBDA res :
      IF res.err # "none" THEN res
      ELSE IF only_level
           THEN IF res.rec.levelno \in DOMAIN tty_levels
                THEN Bind(LevelName(res.rec.levelno), LAMBDA name :
                       [res EXCEPT !.text =
                           Replace(res.text, name,
                                   <<tty_levels[res.rec.levelno]>> \o name
                                     \o <<tty_reset>>)])
                ELSE [err |-> "KeyError", text |-> <<>>, rec |-> res.rec]
      ELSE [res EXCEPT !.text = ColorAttrs(res.text, kwargs, res.rec)])

\* ------------------------------------------------------ events and renderings
MaxRenders == 2

\* Path bodies: "/" then up to MaxBody - 1 characters, no empty component.
BodyTails == UNION {[1 .. n -> {"a", PATH_SEP}] : n \in 1 .. (MaxBody - 1)}

Bodies ==
    { <<PATH_SEP>> \o b : b \in
        { t \in BodyTails :
            /\ t[1] # PATH_SEP
            /\ t[Len(t)] # PATH_SEP
            /\ \A i \in 1 .. (Len(t) - 1) :
                  ~(t[i] = PATH_SEP /\ t[i + 1] = PATH_SEP) } }

\* record.pathname: the shell, modules below the working directory, modules
\* elsewhere, installed modules, and a relative path.
Paths ==
    {StdinTag}
      \cup { Cwd \o b \o PyExt : b \in Bodies }
      \cup { <<PATH_SEP, "v">> \o b \o PyExt : b \in Bodies }
      \cup { <<PATH_SEP, "v", PATH_SEP>> \o SitePackages \o b \o PyExt :
               b \in Bodies }
      \cup { <<".", PATH_SEP, "a">> \o PyExt }

\* record.funcName
Funcs == {ModuleTag, LambdaTag, <<"f">>, <<"g", "o">>}

\* record.levelno: the defined levels and one that is not defined
Levels == (DOMAIN levelToName) \cup {25}

Frame(func, lineno) == [func |-> func, lineno |-> lineno]

\* record.exc_info: none, or (type, value, traceback)
Excs ==
    {NoExc}
      \cup { [has |-> TRUE, klass |-> <<"E", "r", "r">>,
              emsg |-> <<"b", "a", "d">>, tb |-> tb] :
             tb \in { <<>>,
                      <<Frame(ModuleTag, 3)>>,
                      <<Frame(<<"f">>, 7)>>,
                      <<Frame(ModuleTag, 3), Frame(<<"f">>, 7)>>,
                      <<Frame(<<"g">>, 12), Frame(<<"f">>, 7)>>,
                      <<Frame(<<"f">>, 7), Frame(ModuleTag, 3)>> } }

\* record.msg and record.args; "bad" is the text of the exception, as when
\* the exception itself is what is logged.
Messages ==
    { [msg |-> <<"h", "i">>, args |-> <<>>],
      [msg |-> <<"b", "a", "d">>, args |-> <<>>],
      [msg |-> <<"n", "=", "%", "s">>, args |-> << <<"5">> >>],
      [msg |-> <<"h", "i">>, args |-> << <<"5">> >>],
      [msg |-> <<"E", "R", "R", "O", "R">>, args |-> <<>>] }

\* logging.LogRecord(...): a record as the emitting call makes it
NewRecord(path, func, levelno, m, exc) ==
    [pathname |-> path, funcName |-> func, lineno |-> 12,
     levelno |-> levelno, msg |-> m.msg, args |-> m.args, exc |-> exc,
     exc_text |-> <<>>, attrs |-> {}, caller |-> <<>>, isatty |-> FALSE,
     color |-> <<>>, reset |-> <<>>]

PlainMessage == [msg |-> <<"h", "i">>, args |-> <<>>]

\* The events: every location with a plain content; at two locations, every
\* level with a plain content and every message and exception at one level.
Events ==
    { NewRecord(p, f, INFO, PlainMessage, NoExc) : p \in Paths, f \in Funcs }
      \cup { NewRecord(p, f, l, PlainMessage, NoExc) :
               p \in {StdinTag, Cwd \o <<PATH_SEP, "a">> \o PyExt},
               f \in {ModuleTag, <<"f">>}, l \in Levels }
      \cup { NewRecord(p, f, ERROR, m, e) :
               p \in {StdinTag, Cwd \o <<PATH_SEP, "a">> \o PyExt},
               f \in {ModuleTag, <<"f">>}, m \in Messages, e \in Excs }

\* How the formatters are built: the template of the _miroslava Formatter
\* (<<>>: none given) and the pathname width of the legacy template.
Configs ==
    { [fmt |-> <<>>, width |-> 5], [fmt |-> <<>>, width |-> 6],
      [fmt |-> PlainFormat, width |-> 5], [fmt |-> ColorFormat, width |-> 5] }

NoOut == [via |-> "none", stream |-> "none", tty |-> FALSE, err |-> "none",
          text |-> <<>>]

FmtInit ==
    /\ rec \in Events
    /\ fcfg \in Configs
    /\ lastIn = rec
    /\ out = NoOut
    /\ renders = 0

\* The formatting state of a program that has emitted nothing yet.
FmtIdle ==
    /\ rec = NewRecord(StdinTag, ModuleTag, INFO,
                       [msg |-> <<"h", "i">>, args |-> <<>>], NoExc)
    /\ fcfg = [fmt |-> <<>>, width |-> DefaultPathWidth]
    /\ lastIn = rec
    /\ out = NoOut
    /\ renders = 0

Rendered(via, stream, res) ==
    /\ renders < MaxRenders
    /\ renders' = renders + 1
    /\ lastIn' = rec
    /\ rec' = res.rec
    /\ out' = [via |-> via, stream |-> stream, tty |-> stream = "tty",
               err |-> res.err, text |-> res.text]
    /\ UNCHANGED fcfg

\* A stream sink of the _miroslava package formats the record.
StreamFormat(stream) ==
    Rendered("hinter", stream,
             HinterFormat(NewFormatter(fcfg.fmt), stream, rec))

\* A file sink of the _miroslava package formats the record: the inherited
\* logging.Handler.format calls Formatter.format, with no hint.
FileFormat ==
    Rendered("file", "none", format(NewFormatter(fcfg.fmt), rec))

\* A sink whose formatter is miroslava.logger.Formatter formats the record.
LegacyAFormat ==
    Rendered("legacyA", "none",
             LegacyFormatA(LegacyFormatter(fcfg.width), rec))

\* A sink whose formatter is miroslava.utils.logger.Formatter formats it.
LegacyBFormat ==
    Rendered("legacyB", "none",
             LegacyFormatB(LegacyFormatter(fcfg.width), rec))

\* The miroslava.utils.logger.StreamHandler on a stream formats the record.
LegacyStreamSink(stream, only_level) ==
    Rendered("legacyStream", stream,
             LegacyStreamFormat(LegacyFormatter(fcfg.width), only_level,
                                LinenoAqua, rec))

FmtNext ==
    /\ \/ \E stream \in StreamKinds : StreamFormat(stream)
       \/ FileFormat
       \/ LegacyAFormat
       \/ LegacyBFormat
       \/ \E stream \in {"tty", "notty"}, only_level \in BOOLEAN :
             LegacyStreamSink(stream, only_level)
    /\ UNCHANGED <<singVars, logVars, rotVars, raceVars, useVars, concVars, nestVars, argVars>>

\* ------------------------------------------------------------------ C4
\* The location of an event as the claim defines it: the normalized path,
\* with ".<functionName>()" when the function is not module-level.
C4_Normalized(record) ==
    formatPath([limit |-> 1000], record.pathname).s
      \o (IF record.funcName # ModuleTag
          THEN <<".">> \o record.funcName \o <<"(", ")">> ELSE <<>>)

C4_Limit == LegacyFormatter(fcfg.width).limit

\* C4: when the normalized location of a freshly emitted event is longer than
\* the limit, the location that Formatter.format renders is the ellipsis
\* followed by the last `limit` characters of that normalized location, so
\* that it is at most limit + 3 long.
C4_TruncatedLocation ==
    (/\ out.via \in {"legacyA", "legacyB"}
     /\ out.err = "none"
     /\ renders = 1
     /\ lastIn.pathname # StdinTag
     /\ Len(C4_Normalized(lastIn)) > C4_Limit)
        => /\ rec.pathname = Ellipsis \o LastN(C4_Normalized(lastIn), C4_Limit)
           /\ Len(rec.pathname) <= C4_Limit + 3

\* ------------------------------------------------------------------ C5
\* The location a rendering put into its text, if its template has one.
C5_HasLocation ==
    \/ out.via \in {"legacyA", "legacyB", "legacyStream"}
    \/ out.via \in {"hinter", "file"} /\ "caller" \in rec.attrs

C5_Location ==
    IF out.via \in {"hinter", "file"} THEN rec.caller ELSE rec.pathname

C6_NoEscapeOffTTY ==
    (out.via \in {"hinter", "file", "legacyStream"} /\ ~out.tty
       /\ out.err = "none")
        => EscCount(out.text) = 0

\* ------------------------------------------------------------------ C7
\* C7: the text a stream sink renders for a TTY, with its escape sequences
\* removed, is the text the sink renders from the same record for a stream
\* that is not a TTY, and that text has no escape sequence.
C7_StripIsPlain ==
    (out.via = "hinter" /\ out.tty /\ out.err = "none")
        => Bind(HinterFormat(NewFormatter(fcfg.fmt), "notty", lastIn),
             LAMBDA plain :
                /\ plain.err = "none"
                /\ Strip(out.text) = plain.text
                /\ EscCount(plain.text) = 0)

\* A TTY rendering that carries a colour and a reset.
C7_Witness ==
    /\ out.via = "hinter"
    /\ out.tty
    /\ out.err = "none"
    /\ EscCount(out.text) = 2
    /\ lastIn.levelno = 60

\* ------------------------------------------------------------------ C8
\* The text the claim gives for an exception: the clause and the line number
\* are those of the frame the exception originated in, the last entry of the
\* traceback.
C8_Expected(ei) ==
    LET origin == ei.tb[Len(ei.tb)]
    IN ei.klass \o <<":", " ">> \o ei.emsg \o <<" ">>
         \o (IF origin.func = ModuleTag THEN <<"o", "n">>
             ELSE <<"i", "n", " ">> \o origin.func
                    \o <<"(", ")", " ", "o", "n">>)
         \o <<" ", "l", "i", "n", "e", " ">> \o ToStr(origin.lineno)

\* The rendering put the text of formatException into its output: always
\* for the formatters that make it the message, and for
\* miroslava.logger.Formatter when the logged message carries the
\* exception's own text, which is what formatException's text replaces.
C8_ExceptionRendered ==
    /\ out.via # "none"
    /\ out.err = "none"
    /\ lastIn.exc.has
    /\ lastIn.exc.tb # <<>>
    /\ out.via = "legacyA" => lastIn.msg = lastIn.exc.emsg

\* C8: an event with exception info is rendered with
\* "<Type>: <message> on line <N>" when the exception originated at module
\* top level and "<Type>: <message> in <func>() on line <N>" when it
\* originated in the function <func>, N being the originating frame's line.
C8_OriginatingFrame ==
    C8_ExceptionRendered => Contains(out.text, C8_Expected(lastIn.exc))

\* ------------------------------------------------------------------ C9
\* C9: the colour table has a colour for every defined level; a rendering
\* for a TTY of an event whose level is not in the table fails with KeyError
\* and yields no text, and no rendering of such an event carries a colour.
C9_UnknownLevelFails ==
    /\ DOMAIN level_style = DOMAIN levelToName
    /\ (out.via = "hinter" /\ out.tty
          /\ lastIn.levelno \notin DOMAIN level_style)
          => (out.err = "KeyError" /\ out.text = <<>>)
    /\ (out.via \in {"hinter", "file"} /\ out.err = "none"
          /\ lastIn.levelno \notin DOMAIN level_style)
          => EscCount(out.text) = 0

\* An event of the undefined level 25 went to a stream sink on a TTY.
C9_Witness ==
    /\ out.via = "hinter"
    /\ out.tty
    /\ lastIn.levelno = 25
    /\ out.err = "KeyError"

\* ====================================================== size-rotating sink
MaxOps == 4
MaxBackups == 2
MaxMsg == 3

\* A file that does not exist, and one that exists and is empty. The data of
\* a file is the list of the messages written to it: which write, how long.
Absent == [exists |-> FALSE, data |-> <<>>]
Empty == [exists |-> TRUE, data |-> <<>>]

\* How RotatingFileHandler(filename, mode, max_bytes, backups, ..., formatter)
\* is built: rollover never, or at MaxMsg bytes; the formatter is the one
\* create_logger passes, or the default of the parameter, which is the class
\* Formatter and no instance of it.
RotConfigs ==
    [maxBytes : {0, MaxMsg}, backupCount : 0 .. MaxBackups,
     formatter : {"instance", "class"}]

NoOp == [kind |-> "none", rolled |-> FALSE, err |-> "none",
         msg |-> [id |-> 0, n |-> 0]]

\* The sink once it is constructed in a directory of its own: the file is
\* opened, which creates it.
RotInit ==
    /\ rcfg \in RotConfigs
    /\ files = [i \in 0 .. MaxBackups |-> IF i = 0 THEN Empty ELSE Absent]
    /\ fstream = TRUE
    /\ ops = 0
    /\ prevFiles = files
    /\ lastOp = NoOp
    /\ gens = <<>>

\* A program that has built no rotating sink.
RotIdle ==
    /\ rcfg = [maxBytes |-> 0, backupCount |-> 0, formatter |-> "class"]
    /\ files = [i \in 0 .. MaxBackups |-> Absent]
    /\ fstream = FALSE
    /\ ops = 0
    /\ prevFiles = files
    /\ lastOp = NoOp
    /\ gens = <<>>

RECURSIVE Size(_)
\* stream.tell() at the end of the file
Size(data) == IF data = <<>> THEN 0 ELSE Head(data).n + Size(Tail(data))

\* self._open() in mode "a": the file is created when it does not exist.
open(fs) == IF fs[0].exists THEN fs ELSE [fs EXCEPT ![0] = Empty]

RECURSIVE ShiftOffByOne(_, _)
\* A mutant of the loop: range(backupCount - 1, 1, -1), which leaves
\* <name>.1 where it is.
ShiftOffByOne(fs, i) ==
    IF i < 2 THEN fs
    ELSE ShiftOffByOne(IF fs[i].exists
                       THEN [fs EXCEPT ![i + 1] = fs[i], ![i] = Absent]
                       ELSE fs,
                       i - 1)

RECURSIVE Shift(_, _)
\* The loop of doRollover, for i from backupCount - 1 down to 1: an existing
\* <name>.i replaces <name>.(i+1).
Shift(fs, i) ==
    IF i < 1 THEN fs
    ELSE Shift(IF fs[i].exists
               THEN [fs EXCEPT ![i + 1] = fs[i], ![i] = Absent]
               ELSE fs,
               i - 1)

\* After the loop: <name>.1 is removed, <name> is renamed to it if it exists.
rotate(fs) == [fs EXCEPT ![1] = fs[0], ![0] = Absent]

\* A mutant: the backups are not shifted before <name> becomes <name>.1.
doRolloverNoShift(fs, n) ==
    open(IF n > 0 THEN rotate(fs) ELSE fs)

\* handler.doRollover(): the stream is closed, the backups are shifted, the
\* file becomes <name>.1 and is opened again.
doRollover(fs, n) ==
    open(IF n > 0 THEN rotate(Shift(fs, n - 1)) ELSE fs)

\* A mutant: the size of the file alone is compared with maxBytes.
shouldRolloverCurrentSize(fs, n) ==
    rcfg.maxBytes > 0 /\ Size(fs[0].data) >= rcfg.maxBytes

\* handler.shouldRollover(record), the stream being open
shouldRollover(fs, n) ==
    rcfg.maxBytes > 0 /\ Size(fs[0].data) + n >= rcfg.maxBytes

Did(kind, rolled, err, msg) ==
    /\ ops < MaxOps
    /\ ops' = ops + 1
    /\ prevFiles' = files
    /\ lastOp' = [kind |-> kind, rolled |-> rolled, err |-> err, msg |-> msg]
    /\ gens' = IF rolled THEN Append(gens, files[0].data) ELSE gens
    /\ UNCHANGED rcfg

\* handler.handle(record) for a record whose line is n characters long: the
\* stream is opened if it is not, the line is formatted (which raises
\* TypeError when the formatter is the class, and handleError ends the
\* call), the files are rolled over if the line would reach maxBytes, and
\* the line is written.
emit(n) ==
    LET msg == [id |-> ops + 1, n |-> n]
        fs == open(files)
        roll == shouldRollover(fs, n)
        rolled == IF roll THEN doRollover(fs, rcfg.backupCount) ELSE fs
    IN /\ fstream' = TRUE
       /\ IF rcfg.formatter = "class"
          THEN /\ files' = fs
               /\ Did("emit", FALSE, "TypeError", msg)
          ELSE /\ files' = [rolled EXCEPT ![0].data = Append(@, msg)]
               /\ Did("emit", roll, "none", msg)

\* RotatingFileHandler.do_rollover(): the rollover, with no write.
do_rollover ==
    /\ files' = doRollover(files, rcfg.backupCount)
    /\ fstream' = TRUE
    /\ Did("do_rollover", TRUE, "none", NoOp.msg)

\* handler.close(), as create_logger calls it on the handlers it removes.
close ==
    /\ fstream
    /\ fstream' = FALSE
    /\ UNCHANGED files
    /\ Did("close", FALSE, "none", NoOp.msg)

RotNext ==
    /\ \/ \E n \in 1 .. MaxMsg : emit(n)
       \/ do_rollover
       \/ close
    /\ UNCHANGED <<singVars, logVars, fmtVars, raceVars, useVars, concVars, nestVars, argVars>>

\* ----------------------------------------------------------------- C10
\* The backups that exist.
C10_Backups == {i \in 1 .. MaxBackups : files[i].exists}

\* The writes whose lines are in a file.
C10_Ids(f) == {f.data[j].id : j \in 1 .. Len(f.data)}

\* C10: with a backup count N >= 1 the file <name> exists and the backups are
\* <name>.1 .. <name>.k for some k <= N; a rollover puts what <name>.i held
\* into <name>.(i+1) for i < N and what <name> held into <name>.1, keeps
\* nothing of what <name>.N held, and leaves <name> with the line being
\* written and nothing else.
C10_RotatedBackups ==
    rcfg.backupCount >= 1 =>
        /\ files[0].exists
        /\ \E k \in 0 .. rcfg.backupCount : C10_Backups = 1 .. k
        /\ lastOp.rolled =>
              /\ \A i \in 0 .. (rcfg.backupCount - 1) :
                    files[i + 1] = prevFiles[i]
              /\ \A i \in 0 .. MaxBackups :
                    C10_Ids(files[i])
                      \cap C10_Ids(prevFiles[rcfg.backupCount]) = {}
              /\ files[0].data = IF lastOp.kind = "emit"
                                 THEN <<lastOp.msg>> ELSE <<>>

\* A write has rolled over a sink that keeps two backups and had both: the
\* lines of the older one are dropped.
C10_Witness ==
    /\ rcfg.backupCount = 2
    /\ lastOp.kind = "emit"
    /\ lastOp.rolled
    /\ prevFiles[2].exists
    /\ prevFiles[2].data # <<>>
    /\ prevFiles[1].data # <<>>

\* ----------------------------------------------------------------- C11
\* The sink of the claim: a size threshold, two backups, a formatter that
\* renders.
C11_Sink ==
    /\ rcfg.maxBytes > 0
    /\ rcfg.backupCount = 2
    /\ rcfg.formatter = "instance"

\* C11 as stated: the files are <name> and at most <name>.1 and <name>.2;
\* <name>.2 is absent before the 3rd rollover and present after it, with
\* what <name> held at the 2nd rollover.
C11_SecondBackupAtThird ==
    C11_Sink =>
        /\ files[0].exists
        /\ Len(gens) < 3 => ~files[2].exists
        /\ Len(gens) >= 3 =>
              /\ files[1].exists
              /\ files[2] = [exists |-> TRUE, data |-> gens[Len(gens) - 1]]

\* C11 amended: <name>.2 is absent before the 2nd rollover and present from
\* it on; after the r-th rollover <name>.1 holds what <name> held at that
\* rollover and <name>.2 what it held at the one before, so that after the
\* 3rd <name>.2 holds the 2nd-oldest content.
C11_SecondBackupAtSecond ==
    C11_Sink =>
        /\ files[0].exists
        /\ Len(gens) < 2 => ~files[2].exists
        /\ Len(gens) < 1 => ~files[1].exists
        /\ Len(gens) >= 1 =>
              files[1] = [exists |-> TRUE, data |-> gens[Len(gens)]]
        /\ Len(gens) >= 2 =>
              files[2] = [exists |-> TRUE, data |-> gens[Len(gens) - 1]]

\* Three writes have crossed the threshold: <name>.2 holds the lines of the
\* second file, the first file's lines are gone.
C11_Witness ==
    /\ C11_Sink
    /\ Len(gens) = 3
    /\ lastOp.kind = "emit"
    /\ gens[1] # <<>>
    /\ gens[2] # <<>>
    /\ files[2].data = gens[2]
    /\ \A i \in 0 .. MaxBackups : files[i].data # gens[1]

\* ----------------------------------------------------------------- C12
\* C12 as stated: a write that is carried out is preceded by a rollover
\* exactly when the threshold is not 0 and the file's size before the write
\* is at or beyond it.
C12_RotatesAtThreshold ==
    (lastOp.kind = "emit" /\ lastOp.err = "none") =>
        (lastOp.rolled <=> /\ rcfg.maxBytes > 0
                           /\ Size(prevFiles[0].data) >= rcfg.maxBytes)

\* C12 amended: a write is preceded by a rollover exactly when the line is
\* rendered, the threshold is not 0 and the file's size before the write
\* plus the length of the line is at or beyond it; with a threshold of 0 no
\* write rolls over.
C12_RotatesBeforeExceeding ==
    lastOp.kind = "emit" =>
        /\ lastOp.rolled <=> /\ lastOp.err = "none"
                              /\ rcfg.maxBytes > 0
                              /\ Size(prevFiles[0].data) + lastOp.msg.n
                                    >= rcfg.maxBytes
        /\ lastOp.err = "none" => lastOp.msg \in Range(files[0].data)
        /\ rcfg.maxBytes = 0 => ~lastOp.rolled

\* A write has rolled over a file that was not empty and was shorter than
\* the threshold.
C12_Witness ==
    /\ lastOp.kind = "emit"
    /\ lastOp.rolled
    /\ prevFiles[0].data # <<>>
    /\ Size(prevFiles[0].data) < rcfg.maxBytes

\* ----------------------------------------------------------------- C14
\* C14: when a _miroslava stream sink formats an event on a stream whose TTY
\* query fails (no isatty, or isatty raises), the outcome is the rendering
\* for a stream that is no terminal, and no error leaves the call.
C14_QueryFailureIsNonTTY ==
    (out.via = "hinter" /\ out.stream \in {"noattr", "closed", "broken"}) =>
        Bind(HinterFormat(NewFormatter(fcfg.fmt), "notty", lastIn),
          LAMBDA plain : out.err = plain.err /\ out.text = plain.text)

\* ----------------------------------------------------------------- C15
\* C15: an event logged through a Logger method, of a level below the level
\* option of the latest create_logger call, is written by none of the sinks
\* that call attached.
C15_BelowLevelNotWritten ==
    (Quiet /\ logged.call = created /\ logged.level < lastKw.level) =>
        logged.to \cap lastHandlers = {}

\* ----------------------------------------------------------------- C16
\* C16: Formatter.format (of either package) leaves the event as it was:
\* after a format call that returned, the record's path, function name,
\* message, fill values and exception info are what they were before it.
C16_EventUnchanged ==
    (out.via \in {"file", "hinter", "legacyA"} /\ out.err = "none") =>
        /\ rec.pathname = lastIn.pathname
        /\ rec.funcName = lastIn.funcName
        /\ rec.msg = lastIn.msg
        /\ rec.args = lastIn.args
        /\ rec.exc = lastIn.exc

\* ----------------------------------------------------------------- C17
\* C17: once a create_logger call without the handlers option has returned,
\* the root channel has exactly one stream handler, on the stream option or
\* on stderr when there is none, and one file handler on the filename option
\* if there is one and no file handler otherwise, all built by that call
\* with that call's one formatter; once a call with the handlers option has
\* returned, the handlers attached are exactly the supplied ones and the
\* call has built none.
FilesAttached == {h \in Range(rootHandlers) : hs[h].kind = "file"}

C20_ReturnsLogger ==
    \A t \in Threads : lret[t] \in {"none", "logger"}

\* ----------------------------------------------------------------- C21
\* C21: when a record carries exception info, the _miroslava
\* Formatter.format returns, whatever the record's message template and
\* the fill values that fit it; the line ends with the text of
\* formatException, and holds no newline.
C21_ExceptionIsMessage ==
    (out.via = "file" /\ lastIn.exc.has /\ getMessage(lastIn).err = "none") =>
        /\ out.err = "none"
        /\ Bind(formatException(lastIn.exc), LAMBDA etext :
              LastN(out.text, Len(etext)) = etext)
        /\ "\n" \notin Range(out.text)

\* ----------------------------------------------------------------- C22
\* C22: once a create_logger call has returned, no handler attached to the
\* root channel has been closed, also when a handler object is supplied
\* through the handlers option of two calls in a row.
C22_AttachedOpen ==
    (Quiet /\ created > 0) =>
        \A h \in Range(rootHandlers) : ~hs[h].closed

\* ----------------------------------------------------------------- C23
\* C23: when StreamHandlerHinter.format or the _miroslava Formatter.format
\* has finished, by returning or by raising, the record has none of the
\* attributes isatty, color and reset; and the text a file sink renders,
\* before or after a stream sink on a terminal rendered the same record,
\* holds no escape sequence.
C23_NoTemporaryAttribute ==
    /\ out.via \in {"hinter", "file"} =>
          rec.attrs \cap {"isatty", "color", "reset"} = {}
    /\ (out.via = "file" /\ out.err = "none") => EscCount(out.text) = 0

\* ========================================== the rotating sink under threads
MaxRaceOps == 3

\* A name of the directory that is bound to no file.
NoFile == [exists |-> FALSE, ino |-> 0]

\* The renames of doRollover leave `Absent` at the names they vacate.
Unlinked(fs) == [i \in DOMAIN fs |-> IF fs[i].exists THEN fs[i] ELSE NoFile]

\* The sink once it is constructed (RotInit), seen statement by statement:
\* <name> is inode 1, and handler.stream is the file object opened on it.
RaceInit ==
    /\ xfiles = [i \in 0 .. MaxBackups |->
                    IF i = 0 THEN [exists |-> TRUE, ino |-> 1] ELSE NoFile]
    /\ xdata = << <<>> >>
    /\ xobjs = <<[ino |-> 1, open |-> TRUE]>>
    /\ xstream = 1
    /\ xlock = NoThread
    /\ xpc = [t \in Threads |-> "idle"]
    /\ xop = [t \in Threads |-> "none"]
    /\ xmsg = [t \in Threads |-> NoOp.msg]
    /\ xlocal = [t \in Threads |-> 0]
    /\ xdec = [t \in Threads |-> 0]
    /\ xops = 0
    /\ xwrote = {}
    /\ xtwice = FALSE

\* A program whose threads make no call on a rotating sink.
RaceIdle ==
    /\ xfiles = [i \in 0 .. MaxBackups |-> NoFile]
    /\ xdata = <<>>
    /\ xobjs = <<>>
    /\ xstream = 0
    /\ xlock = NoThread
    /\ xpc = [t \in Threads |-> "idle"]
    /\ xop = [t \in Threads |-> "none"]
    /\ xmsg = [t \in Threads |-> NoOp.msg]
    /\ xlocal = [t \in Threads |-> 0]
    /\ xdec = [t \in Threads |-> 0]
    /\ xops = 0
    /\ xwrote = {}
    /\ xtwice = FALSE

\* self.stream = self._open(), mode "a": <name> is created when no file has
\* that name, and a new file object on it becomes handler.stream.
OpenStream ==
    /\ xfiles' = IF xfiles[0].exists THEN xfiles
                 ELSE [xfiles EXCEPT
                          ![0] = [exists |-> TRUE, ino |-> Len(xdata) + 1]]
    /\ xdata' = IF xfiles[0].exists THEN xdata ELSE Append(xdata, <<>>)
    /\ xobjs' = Append(xobjs, [ino |-> xfiles'[0].ino, open |-> TRUE])
    /\ xstream' = Len(xobjs) + 1

\* A thread calls handler.handle(record), the line being n characters long.
raceHandle(t, n) ==
    /\ xpc[t] = "idle"
    /\ xops < MaxRaceOps
    /\ xops' = xops + 1
    /\ xpc' = [xpc EXCEPT ![t] = "acquire"]
    /\ xop' = [xop EXCEPT ![t] = "emit"]
    /\ xmsg' = [xmsg EXCEPT ![t] = [id |-> xops + 1, n |-> n]]
    /\ UNCHANGED <<xfiles, xdata, xobjs, xstream, xlock, xlocal, xdec,
                   xwrote, xtwice>>

\* A thread calls RotatingFileHandler.do_rollover(): handler.doRollover()
\* begins at once, the handler's lock is not taken.
raceDoRollover(t) ==
    /\ xpc[t] = "idle"
    /\ xops < MaxRaceOps
    /\ xops' = xops + 1
    /\ xpc' = [xpc EXCEPT ![t] = "closeStream"]
    /\ xop' = [xop EXCEPT ![t] = "do_rollover"]
    /\ UNCHANGED <<xfiles, xdata, xobjs, xstream, xlock, xmsg, xlocal, xdec,
                   xwrote, xtwice>>

\* Handler.handle: self.acquire()
raceAcquire(t) ==
    /\ xpc[t] = "acquire"
    /\ xlock = NoThread
    /\ xlock' = t
    /\ xpc' = [xpc EXCEPT ![t] = "should"]
    /\ UNCHANGED <<xfiles, xdata, xobjs, xstream, xop, xmsg, xlocal, xdec,
                   xops, xwrote, xtwice>>

\* BaseRotatingHandler.emit: self.shouldRollover(record). The stream is
\* opened when it is None; the record is formatted, which raises when the
\* formatter is the class; the stream's size decides.
raceShould(t) ==
    /\ xpc[t] = "should"
    /\ IF xstream = 0 THEN OpenStream
       ELSE UNCHANGED <<xfiles, xdata, xobjs, xstream>>
    /\ LET ino == xobjs'[xstream'].ino
           measured == [i \in {0} |-> [exists |-> TRUE, data |-> xdata'[ino]]]
       IN IF rcfg.maxBytes > 0 /\ rcfg.formatter = "class"
          THEN /\ xpc' = [xpc EXCEPT ![t] = "release"]
               /\ UNCHANGED xdec
          ELSE IF shouldRollover(measured, xmsg[t].n)
               THEN /\ xpc' = [xpc EXCEPT ![t] = "closeStream"]
                    /\ xdec' = [xdec EXCEPT ![t] = ino]
               ELSE /\ xpc' = [xpc EXCEPT ![t] = "femit"]
                    /\ UNCHANGED xdec
    /\ UNCHANGED <<xlock, xop, xmsg, xlocal, xops, xwrote, xtwice>>

\* doRollover: if self.stream: self.stream.close(); self.stream = None
raceCloseStream(t) ==
    /\ xpc[t] = "closeStream"
    /\ xobjs' = IF xstream = 0 THEN xobjs
                ELSE [xobjs EXCEPT ![xstream].open = FALSE]
    /\ xstream' = 0
    /\ xpc' = [xpc EXCEPT ![t] = "rename"]
    /\ UNCHANGED <<xfiles, xdata, xlock, xop, xmsg, xlocal, xdec, xops,
                   xwrote, xtwice>>

\* doRollover: if self.backupCount > 0: the backups are shifted and <name>
\* becomes <name>.1.
raceRename(t) ==
    /\ xpc[t] = "rename"
    /\ xfiles' = IF rcfg.backupCount > 0
                 THEN Unlinked(rotate(Shift(xfiles, rcfg.backupCount - 1)))
                 ELSE xfiles
    /\ xtwice' = \/ xtwice
                 \/ /\ xop[t] = "emit"
                    /\ rcfg.backupCount > 0
                    /\ ~(xfiles[0].exists /\ xfiles[0].ino = xdec[t])
    /\ xpc' = [xpc EXCEPT ![t] = "reopen"]
    /\ UNCHANGED <<xdata, xobjs, xstream, xlock, xop, xmsg, xlocal, xdec,
                   xops, xwrote>>

\* doRollover: self.stream = self._open(); do_rollover returns here, emit
\* goes on to FileHandler.emit.
raceReopen(t) ==
    /\ xpc[t] = "reopen"
    /\ OpenStream
    /\ xpc' = [xpc EXCEPT ![t] = IF xop[t] = "emit" THEN "femit" ELSE "idle"]
    /\ UNCHANGED <<xlock, xop, xmsg, xlocal, xdec, xops, xwrote, xtwice>>

\* FileHandler.emit opens the stream when it is None; StreamHandler.emit
\* formats the record and reads self.stream into its local `stream`.
raceEmit(t) ==
    /\ xpc[t] = "femit"
    /\ IF xstream = 0 THEN OpenStream
       ELSE UNCHANGED <<xfiles, xdata, xobjs, xstream>>
    /\ IF rcfg.formatter = "class"
       THEN /\ xpc' = [xpc EXCEPT ![t] = "release"]
            /\ UNCHANGED xlocal
       ELSE /\ xpc' = [xpc EXCEPT ![t] = "write"]
            /\ xlocal' = [xlocal EXCEPT ![t] = xstream']
    /\ UNCHANGED <<xlock, xop, xmsg, xdec, xops, xwrote, xtwice>>

\* The name a file has in the directory: 0 for <name>, i for <name>.i, -1
\* when it was removed.
NameOf(ino) ==
    IF \E i \in DOMAIN xfiles : xfiles[i].exists /\ xfiles[i].ino = ino
    THEN CHOOSE i \in DOMAIN xfiles : xfiles[i].exists /\ xfiles[i].ino = ino
    ELSE -1

\* StreamHandler.emit: stream.write(msg + self.terminator). Writing to a
\* closed file raises ValueError, which handleError swallows.
raceWrite(t) ==
    /\ xpc[t] = "write"
    /\ LET o == xobjs[xlocal[t]]
       IN IF o.open
          THEN /\ xdata' = [xdata EXCEPT ![o.ino] = Append(@, xmsg[t])]
               /\ xwrote' = xwrote \cup
                              {[msg |-> xmsg[t], at |-> NameOf(o.ino)]}
          ELSE UNCHANGED <<xdata, xwrote>>
    /\ xpc' = [xpc EXCEPT ![t] = "release"]
    /\ UNCHANGED <<xfiles, xobjs, xstream, xlock, xop, xmsg, xlocal, xdec,
                   xops, xtwice>>

\* Handler.handle: self.release()
raceRelease(t) ==
    /\ xpc[t] = "release"
    /\ xlock' = NoThread
    /\ xpc' = [xpc EXCEPT ![t] = "idle"]
    /\ UNCHANGED <<xfiles, xdata, xobjs, xstream, xop, xmsg, xlocal, xdec,
                   xops, xwrote, xtwice>>

RaceNext ==
    /\ \E t \in Threads :
          \/ \E n \in 1 .. MaxMsg : raceHandle(t, n)
          \/ raceDoRollover(t)
          \/ raceAcquire(t)
          \/ raceShould(t)
          \/ raceCloseStream(t)
          \/ raceRename(t)
          \/ raceReopen(t)
          \/ raceEmit(t)
          \/ raceWrite(t)
          \/ raceRelease(t)
    /\ UNCHANGED <<singVars, logVars, fmtVars, rotVars, useVars, concVars, nestVars, argVars>>

\* ----------------------------------------------------------------- C13
\* C13: whatever the interleaving of threads that write to one rotating sink
\* or call its do_rollover, the check, the rotation and the write are one
\* atomic unit: no write rolls over a file another thread has rolled over
\* since the write measured it, and every line is written to the file that
\* has the sink's name at that moment.
C13_AtomicRollover ==
    /\ ~xtwice
    /\ \A w \in xwrote : w.at = 0

\* ============================================== create_logger under threads
NoMine == [ran |-> FALSE, hset |-> {}]

\* No call has a `handlers` list yet.
ConcInit == mine = [t \in Threads |-> NoMine]

\* A thread enters create_logger, whatever the other threads are doing.
concStart(t, kw) ==
    /\ clStart(t, kw)
    /\ mine' = [mine EXCEPT ![t] = NoMine]

\* The if-block is entered or skipped; when it is entered, `handlers` is
\* the list the call builds or was given.
concBuild(t) ==
    /\ clBuild(t)
    /\ mine' = [mine EXCEPT ![t] = IF Len(rootHandlers) = 0
                                   THEN [ran |-> TRUE, hset |-> lastHandlers']
                                   ELSE @]

\* The statements of create_logger, run by threads in any order.
ConcNext ==
    /\ \/ \E t \in Threads : \E kw \in Kwargs : concStart(t, kw)
       \/ \E t \in Threads : clRemove(t) /\ UNCHANGED concVars
       \/ \E t \in Threads : concBuild(t)
       \/ \E t \in Threads : clAttach(t) /\ UNCHANGED concVars
       \/ \E t \in Threads : clCapture(t) /\ UNCHANGED concVars
       \/ \E t \in Threads : clReturn(t) /\ UNCHANGED concVars
    /\ UNCHANGED <<singVars, fmtVars, rotVars, raceVars, useVars, nestVars, argVars>>

\* ----------------------------------------------------------------- C18
\* C18: when every thread has called create_logger once, at the same time
\* or not, and all the calls have returned, the root channel's handlers are
\* exactly the `handlers` list of one of the calls, each once: no handler of
\* another call beside them, none of them missing.
C18_OneCallsHandlers ==
    (Quiet /\ created = NumThreads /\ \A t \in Threads : lret[t] # "none") =>
        /\ Len(rootHandlers) = Cardinality(Range(rootHandlers))
        /\ \E t \in Threads : mine[t].ran /\ Range(rootHandlers) = mine[t].hset

\* ================================================= nested singleton types
\* No constructor is waiting for a nested call.
NestInit == outer = [t \in Threads |-> "none"]

\* The constructor of a singleton type, running inside the with-block of
\* __call__, constructs an instance of another singleton type: the thread
\* enters SingletonMeta.__call__ again, for that type.
CtorCalls(t, c) ==
    /\ spc[t] = "ctor"
    /\ outer[t] = "none"
    /\ c # scls[t]
    /\ outer' = [outer EXCEPT ![t] = scls[t]]
    /\ scls' = [scls EXCEPT ![t] = c]
    /\ spc' = [spc EXCEPT ![t] = "acquire"]
    /\ UNCHANGED <<instances, lock, sret, calls, nextObj, ctorRuns,
                   ctorFails, returned>>

\* `return cls.instances[cls]`: to the application, or, from a nested call,
\* into the constructor that made it.
NestReturn(t) ==
    IF outer[t] = "none"
    THEN Return(t) /\ UNCHANGED outer
    ELSE /\ spc[t] = "return"
         /\ returned' = [returned EXCEPT
                            ![scls[t]] = @ \cup {instances[scls[t]]}]
         /\ scls' = [scls EXCEPT ![t] = outer[t]]
         /\ spc' = [spc EXCEPT ![t] = "ctor"]
         /\ outer' = [outer EXCEPT ![t] = "none"]
         /\ UNCHANGED <<instances, lock, sret, calls, nextObj, ctorRuns,
                        ctorFails>>

NestNext ==
    /\ \/ \E t \in Threads, c \in Types : Call(t, c) /\ UNCHANGED nestVars
       \/ \E t \in Threads : Acquire(t) /\ UNCHANGED nestVars
       \/ \E t \in Threads : Check(t) /\ UNCHANGED nestVars
       \/ \E t \in Threads : CtorOk(t) /\ UNCHANGED nestVars
       \/ \E t \in Threads, c \in Types : CtorCalls(t, c)
       \/ \E t \in Threads : CtorRaise(t) /\ UNCHANGED nestVars
       \/ \E t \in Threads : Release(t) /\ UNCHANGED nestVars
       \/ \E t \in Threads : NestReturn(t)
    /\ UNCHANGED <<logVars, fmtVars, rotVars, raceVars, useVars, concVars, argVars>>

\* ----------------------------------------------------------------- C19
\* C19: the lock shared by all singleton types never causes a deadlock, also
\* when the constructor of one singleton type constructs another: no thread
\* ever waits at `with cls.lock` for the lock it holds itself.
C19_NoSelfDeadlock ==
    \A t \in Threads : ~(spc[t] = "acquire" /\ lock = t)

\* ============================== singleton types constructed with arguments
MaxArgCalls == 3

NoInst == [none |-> TRUE]
NoArgs == [none |-> TRUE]
NoShown == [by |-> "none", given |-> NoArgs, record |-> NoArgs,
            err |-> "none", text |-> <<>>]

\* getattr(TTYPalette, v): the colour code that a colour's name stands for
TTYPaletteCode(v) ==
    CASE v = "AQUA" -> "ESC[AQUA"
      [] v = "RED_1" -> "ESC[RED_1"

\* The arguments a call may carry. Formatter(fmt): the template, given by the
\* width of its pathname field. StreamHandler(stream, only_level, **kwargs).
CallArgs(c) ==
    IF c = "Formatter"
    THEN { [width |-> w] : w \in {5, 6} }
    ELSE { [stream |-> st, only_level |-> ol, kwargs |-> kw] :
             st \in {"tty", "notty"}, ol \in BOOLEAN,
             kw \in { <<>>, << [key |-> "lineno", value |-> "AQUA"] >>,
                      << [key |-> "lineno", value |-> "RED_1"] >> } }

\* __init__ of the two singleton types: the attributes the instance gets.
\* StreamHandler.__init__ keeps only_level, maps each colour name to its
\* code and hands the stream to logging.StreamHandler.__init__.
Construct(c, a) ==
    IF c = "Formatter"
    THEN LegacyFormatter(a.width)
    ELSE [stream |-> a.stream, only_level |-> a.only_level,
          kwargs |-> [i \in 1 .. Len(a.kwargs) |->
                        [key |-> a.kwargs[i].key,
                         value |-> TTYPaletteCode(a.kwargs[i].value)]]]

ArgInit ==
    /\ made = [c \in Types |-> NoInst]
    /\ first = [c \in Types |-> NoArgs]
    /\ given = [c \in Types |-> NoArgs]
    /\ inits = [c \in Types |-> 0]
    /\ acalls = 0
    /\ shown = NoShown

\* A variant of Singleton.__call__ that runs the constructor on every call.
SingletonCallAlwaysConstructs(c, a) ==
    /\ acalls < MaxArgCalls
    /\ acalls' = acalls + 1
    /\ given' = [given EXCEPT ![c] = a]
    /\ made' = [made EXCEPT ![c] = Construct(c, a)]
    /\ inits' = [inits EXCEPT ![c] = @ + 1]
    /\ first' = IF made[c] = NoInst THEN [first EXCEPT ![c] = a] ELSE first
    /\ UNCHANGED shown

\* Singleton.__call__(cls, *args, **kwargs), the whole call: under the lock,
\* only a type that has no instance is constructed, with these arguments;
\* the instance of the type is returned.
SingletonCall(c, a) ==
    /\ acalls < MaxArgCalls
    /\ acalls' = acalls + 1
    /\ given' = [given EXCEPT ![c] = a]
    /\ IF made[c] = NoInst
       THEN /\ made' = [made EXCEPT ![c] = Construct(c, a)]
            /\ inits' = [inits EXCEPT ![c] = @ + 1]
            /\ first' = [first EXCEPT ![c] = a]
       ELSE UNCHANGED <<made, inits, first>>
    /\ UNCHANGED shown

\* What an instance with the attributes `self` renders of a record: the
\* Formatter by its format; the StreamHandler by its format, its formatter
\* being a miroslava.utils.logger.Formatter() of the default template.
RenderBy(c, self, record) ==
    IF c = "Formatter"
    THEN LegacyFormatA(self, record)
    ELSE LegacyStreamFormat(LegacyFormatter(DefaultPathWidth),
                            self.only_level, self.kwargs, record)

\* The records rendered: a deep path, so that the template's width shows.
ArgEvents ==
    { NewRecord(Cwd \o <<PATH_SEP, "a", "a", "a", PATH_SEP, "a", "a", "a">>
                  \o PyExt, f, l, PlainMessage, NoExc) :
        f \in {ModuleTag, <<"f">>}, l \in {INFO, ERROR} }

\* The instance of type c formats a record.
SingletonRender(c, record) ==
    /\ made[c] # NoInst
    /\ Bind(RenderBy(c, made[c], record), LAMBDA res :
          shown' = [by |-> c, given |-> given[c], record |-> record,
                    err |-> res.err, text |-> res.text])
    /\ UNCHANGED <<made, first, given, inits, acalls>>

ArgNext ==
    /\ \/ \E c \in Types : \E a \in CallArgs(c) : SingletonCall(c, a)
       \/ \E c \in Types : \E record \in ArgEvents : SingletonRender(c, record)
    /\ UNCHANGED <<singVars, logVars, fmtVars, rotVars, raceVars, useVars,
                   concVars, nestVars>>

\* ------------------------------------------------------------------ C24
\* C24: a singleton type that has an instance keeps the attributes that its
\* first construction gave it, whatever arguments later calls carry: its
\* constructor has run once, and what the instance renders is what an
\* instance built from the first call's arguments renders.
C24_FirstArgumentsOnly ==
    \A c \in Types :
        made[c] # NoInst =>
            /\ inits[c] = 1
            /\ made[c] = Construct(c, first[c])
            /\ shown.by = c =>
                  Bind(RenderBy(c, Construct(c, first[c]), shown.record),
                       LAMBDA res : /\ shown.err = res.err
                                    /\ shown.text = res.text)

\* A type called a second time with other arguments has rendered a record,
\* and arguments of the second call would have rendered it differently.
C24_Witness ==
    \E c \in Types :
        /\ made[c] # NoInst
        /\ given[c] # first[c]
        /\ shown.by = c
        /\ shown.given = given[c]
        /\ shown.err = "none"
        /\ RenderBy(c, Construct(c, given[c]), shown.record).text
              # shown.text

\* =========================================================== specifications
\* The state once the modules are imported.
Init ==
    /\ SingInit
    /\ LogInit
    /\ FmtIdle
    /\ RotIdle
    /\ RaceIdle
    /\ UseInit
    /\ ConcInit
    /\ NestInit
    /\ ArgInit

\* The singleton metaclass under concurrent construction.
SpecSingleton == Init /\ [][SingNext]_vars

\* Singleton types whose constructors construct other singleton types.
SpecNested == Init /\ [][NestNext]_vars

\* create_logger called repeatedly, one call after another.
SpecLogger == Init /\ [][LogNext]_vars

\* create_logger called repeatedly, and the returned Logger used.
SpecUse == Init /\ [][UseNext]_vars

\* create_logger called by several threads at the same time.
SpecConc == Init /\ [][ConcNext]_vars

\* One event formatted by the sinks it is routed to.
InitFormat ==
    /\ SingInit
    /\ LogInit
    /\ FmtInit
    /\ RotIdle
    /\ RaceIdle
    /\ UseInit
    /\ ConcInit
    /\ NestInit
    /\ ArgInit

SpecFormat == InitFormat /\ [][FmtNext]_vars

\* One size-rotating sink, written to, rolled over and closed.
InitRotate ==
    /\ SingInit
    /\ LogInit
    /\ FmtIdle
    /\ RotInit
    /\ RaceIdle
    /\ UseInit
    /\ ConcInit
    /\ NestInit
    /\ ArgInit

SpecRotate == InitRotate /\ [][RotNext]_vars

\* One size-rotating sink used by threads that write to it and roll it over.
InitRace ==
    /\ SingInit
    /\ LogInit
    /\ FmtIdle
    /\ RotInit
    /\ RaceInit
    /\ UseInit
    /\ ConcInit
    /\ NestInit
    /\ ArgInit

SpecRace == InitRace /\ [][RaceNext]_vars

\* The singleton types called with arguments, and their instances rendering.
SpecArgs == Init /\ [][ArgNext]_vars

====
